---- MODULE Spec2Model ----
(***************************************************************************)
(* Model of the artifact preparation utility (utils/prepare_nemo_model.py) *)
(* and of the inference handler (model/inference.py).                      *)
(*                                                                         *)
(* The file system is modelled by what the code observes of it: the        *)
(* object at local_nemo_path (nemo), the object at out_tar (tar) and the   *)
(* directories that exist (dirs).  An archive file is described by the     *)
(* properties Python's tarfile and gzip readers decide on.                 *)
(***************************************************************************)
EXTENDS Integers, Sequences, FiniteSets, TLC

\* ------------------------------------------------------------------ bounds
\* Number of prepare_nemo_artifact calls in one behaviour.
MaxCalls == 3
\* Largest checkpoint / entry size (bytes, abstracted).
MaxSize == 2
\* Largest number of entries of a hand-made archive.
MaxEntries == 2

\* ------------------------------------------------------- program constants
\* 0o644, the mode _deterministic_filter gives a regular file.
ModeFile == 420
\* 0o755, the mode _deterministic_filter gives anything else.
ModeOther == 493
\* The timestamp _deterministic_filter gives every entry.
FixedMtime == 0
\* The owner and group id _deterministic_filter gives every entry.
FixedId == 0

\* ------------------------------------------------------------ file objects
\* The host attributes tarfile.gettarinfo copies into a TarInfo: what
\* os.lstat reports of the source file.
Hosts ==
    [uid : {0, 1000}, gid : {0, 100}, mode : {ModeFile, 384}, mtime : {0, 7}]

HostDefault == [uid |-> 1000, gid |-> 100, mode |-> 384, mtime |-> 7]

\* uname / gname as tarfile looks them up from the ids (pwd / grp).
NameOf(id) == IF id = 0 THEN "root" ELSE "user"

\* The object at local_nemo_path.  A symlink points to a regular file of
\* `size` bytes, so os.path.exists and os.path.getsize see the target.
NoNemo == [kind |-> "absent", size |-> 0]

NemoStates ==
    {NoNemo}
    \cup [kind : {"file"}, size : 0..MaxSize]
    \cup [kind : {"symlink"}, size : 1..MaxSize]

\* One member of a tar archive, as a TarInfo.
MkEntry(n, t, s, u, g, un, gn, m, mt) ==
    [name |-> n, type |-> t, size |-> s, uid |-> u, gid |-> g,
     uname |-> un, gname |-> gn, mode |-> m, mtime |-> mt]

\* The object at out_tar.
\*   kind : "absent", "dir" (a directory), "unreadable" (a file the process
\*          may not open), "file"
\*   fmt  : "nottar" (bytes tarfile.is_tarfile answers False for: arbitrary
\*          bytes, an empty file, a gzip stream holding no tar block),
\*          "tar" (an uncompressed tar), "targz"
\*   trunc: where a targz stream ends.  "none": complete.  "trailer": after
\*          the last block the tar reader consumes (only padding and the
\*          gzip CRC/length trailer are lost).  "body": after the first
\*          member header but before the member list is complete.
\*          "header": before the first member header is complete.
\*   entries: the members, in archive order
\*   gztime : the MTIME field of the gzip header
MkFile(k, f, tr, es, gt) ==
    [kind |-> k, fmt |-> f, trunc |-> tr, entries |-> es, gztime |-> gt]

NoFile == MkFile("absent", "nottar", "none", <<>>, 0)

DirAtTar == MkFile("dir", "nottar", "none", <<>>, 0)

UnreadableAtTar == MkFile("unreadable", "nottar", "none", <<>>, 0)

JunkFile == MkFile("file", "nottar", "none", <<>>, 0)

\* os.path.exists(path): true for a file, a directory and a symlink whose
\* target exists.
Exists(obj) == obj.kind # "absent"

\* os.path.getsize(path) > 0 is all the code asks (line 99).
GetSize(ck) == ck.size

\* ----------------------------------------------------------------- packager
\* tarfile.TarInfo.isreg() / isfile().
IsReg(e) == e.type = "reg"

\* TarFile.gettarinfo(local_nemo_path, arcname="model.nemo"): os.lstat of the
\* source, so a symlink gives a SYMTYPE member of size 0.
GetTarInfo(ck, host) ==
    MkEntry("model.nemo",
            IF ck.kind = "symlink" THEN "sym" ELSE "reg",
            IF ck.kind = "symlink" THEN 0 ELSE ck.size,
            host.uid, host.gid, NameOf(host.uid), NameOf(host.gid),
            host.mode, host.mtime)

\* _deterministic_filter: normalize the metadata of one member.
deterministic_filter(tarinfo) ==
    [tarinfo EXCEPT !.uid = FixedId, !.gid = FixedId,
                    !.uname = "", !.gname = "",
                    !.mode = IF IsReg(tarinfo) THEN ModeFile ELSE ModeOther,
                    !.mtime = FixedMtime]

\* with tarfile.open(out_tar, "w:gz") as tar: tar.add(..., filter=...), when
\* nothing raises.  tarfile.open gives gzip.GzipFile no mtime, so the gzip
\* header's MTIME is time.time() of the run (`now`).
Pack(ck, host, now) ==
    MkFile("file", "targz", "none",
           <<deterministic_filter(GetTarInfo(ck, host))>>, now)

\* What a tar.add that raises leaves at out_tar: TarFile.__exit__ closes
\* the gzip stream without the end-of-archive blocks.  Either no tar block
\* was written (the source could not be opened), or the member header and a
\* part of its data were.
PartialPacks(ck, host, now) ==
    { MkFile("file", "nottar", "none", <<>>, now),
      MkFile("file", "targz", "body",
             <<deterministic_filter(GetTarInfo(ck, host))>>, now) }

\* ---------------------------------------------------------------- validator
\* tarfile.is_tarfile(path) (line 30): opens the file with transparent
\* compression and reads the first member header.  It catches TarError
\* only, so the OSError of open() on a directory or an unreadable file and
\* the EOFError of a gzip stream that ends inside the first header reach
\* the caller.  The answer is "True", "False" or the exception raised.
is_tarfile(f) ==
    CASE f.kind = "dir" -> "IsADirectoryError"
      [] f.kind = "unreadable" -> "PermissionError"
      [] f.fmt = "nottar" -> "False"
      [] f.fmt = "targz" /\ f.trunc = "header" -> "EOFError"
      [] OTHER -> "True"

\* TarFile.getnames() (line 34).
GetNames(f) == {f.entries[i].name : i \in DOMAIN f.entries}

\* TarFile.getmember(name) (line 37): the last member of that name.
GetMember(f, name) ==
    LET idx == {i \in DOMAIN f.entries : f.entries[i].name = name}
        last == CHOOSE i \in idx : \A j \in idx : j <= i
    IN  f.entries[last]

\* The try block (lines 32-42): every exception in it answers False.
\* tarfile.open(path, "r:gz") raises ReadError for a file that is not
\* gzip-compressed; getnames reads every member header and raises when the
\* stream ends before the member list does.
InspectArchive(f) ==
    IF f.fmt # "targz" THEN "False"
    ELSE IF f.trunc \in {"body", "header"} THEN "False"
    ELSE IF "model.nemo" \notin GetNames(f) THEN "False"
    ELSE LET info == GetMember(f, "model.nemo")
         IN  IF ~IsReg(info) \/ info.size <= 0 THEN "False" ELSE "True"

\* _tar_has_model_nemo(path): "True", "False", or the exception that
\* leaves it.
tar_has_model_nemo(f) ==
    IF ~Exists(f) THEN "False"
    ELSE IF is_tarfile(f) # "True" THEN is_tarfile(f)
    ELSE InspectArchive(f)

\* ------------------------------------------------- prepare_nemo_artifact
\* nemo, tar : the objects at local_nemo_path and at out_tar
\* dirs      : the directories that exist
\* args      : os.path.dirname of the two path arguments, the same in
\*             every call of a behaviour ("" for a bare file name)
\* pc        : "idle" between calls, else the line the call is at
\* log       : the steps the current (or last) call has taken
\* outcome   : "none", "running", "returned" (out_tar was returned) or the
\*             exception that left the last call; "none" again once the
\*             caller has changed the file system
\* calls     : number of calls started; also the wall-clock time of a call
\* pre       : nemo, tar and dirs as the current call found them
\* prev      : outcome and log of the call before the current one
VARIABLES nemo, tar, dirs, args, pc, log, outcome, calls, pre, prev

prepVars == <<nemo, tar, dirs, args, pc, log, outcome, calls, pre, prev>>

\* A direct call of _tar_has_model_nemo(path):
\* vfile  : the object at path
\* vsrc   : the checkpoint the object was packed from (NoNemo when it was
\*          found there)
\* vorigin: "found", or "packed" once the packager wrote it
\* vres   : "none", or what the call gave
VARIABLES vfile, vsrc, vorigin, vres

valVars == <<vfile, vsrc, vorigin, vres>>

\* Two runs of the packaging step on one checkpoint:
\* psrc  : the checkpoint (its content does not change)
\* phost : owner, group, mode and mtime of the checkpoint file
\* pnow  : the wall-clock time
\* pdest : the object at out_tar
\* pruns : the archives the runs have written, in order
VARIABLES psrc, phost, pnow, pdest, pruns

packVars == <<psrc, phost, pnow, pdest, pruns>>

\* One request through the handler (input_fn, predict_fn, output_fn):
\* req     : the request body and content type
\* stage   : "received", "decoded", "rejected", "predicted", "failed",
\*           "responded"
\* ires    : what input_fn gave
\* mcalls  : the batches model.transcribe was called with
\* mout    : what model.transcribe did
\* pres    : what predict_fn gave
\* resp    : what output_fn gave
VARIABLES req, stage, ires, mcalls, mout, pres, resp

infVars == <<req, stage, ires, mcalls, mout, pres, resp>>

\* create_sagemaker_role called again and again for one role name:
\* iam     : the role of that name in IAM: whether it exists and whether
\*           AmazonSageMakerFullAccess is attached to it
\* rpc     : "idle" between calls, else the IAM call the function is at
\* rlog    : the IAM calls the current (or last) call has made
\* rout    : "none", "running", "arn" (the role's ARN was returned) or the
\*           exception that left the last call; "none" again once the role
\*           was changed from outside
\* rcalls  : number of calls started
\* rmade   : number of roles create_role has created
\* rpre    : iam and rmade as the current call found them
VARIABLES iam, rpc, rlog, rout, rcalls, rmade, rpre

roleVars == <<iam, rpc, rlog, rout, rcalls, rmade, rpre>>

vars == <<prepVars, valVars, packVars, infVars, roleVars>>

DirNames == {"", "artifacts"}

\* The archives a behaviour may find at out_tar before the first call.
InitTars ==
    { NoFile, DirAtTar, UnreadableAtTar, JunkFile,
      Pack([kind |-> "file", size |-> 1], HostDefault, 0),
      [Pack([kind |-> "file", size |-> 1], HostDefault, 0)
          EXCEPT !.trunc = "header"],
      Pack([kind |-> "file", size |-> 0], HostDefault, 0) }

\* A directory named "" is the working directory, which exists.
DirExists(d, ds) == d = "" \/ d \in ds

Snapshot == [nemo |-> nemo, tar |-> tar, dirs |-> dirs]

PrepInit ==
    /\ args \in [nemoDir : DirNames, tarDir : DirNames]
    /\ dirs \in SUBSET (DirNames \ {""})
    /\ nemo \in NemoStates
    /\ tar \in InitTars
    /\ (Exists(nemo) => DirExists(args.nemoDir, dirs))
    /\ (Exists(tar) => DirExists(args.tarDir, dirs))
    /\ pc = "idle"
    /\ log = <<>>
    /\ outcome = "none"
    /\ calls = 0
    /\ pre = Snapshot
    /\ prev = [outcome |-> "none", log |-> <<>>]

PrepInitIdle ==
    /\ args = [nemoDir |-> "artifacts", tarDir |-> "artifacts"]
    /\ dirs = {}
    /\ nemo = NoNemo
    /\ tar = NoFile
    /\ pc = "idle"
    /\ log = <<>>
    /\ outcome = "none"
    /\ calls = 0
    /\ pre = Snapshot
    /\ prev = [outcome |-> "none", log |-> <<>>]

\* The call ends: it returns out_tar or an exception leaves it.
Finish(o) == pc' = "idle" /\ outcome' = o

\* A caller invokes prepare_nemo_artifact(local_nemo_path, model_name, out_tar).
Call ==
    /\ pc = "idle"
    /\ calls < MaxCalls
    /\ calls' = calls + 1
    /\ pc' = "L80"
    /\ log' = <<>>
    /\ outcome' = "running"
    /\ pre' = Snapshot
    /\ prev' = [outcome |-> outcome, log |-> log]
    /\ UNCHANGED <<nemo, tar, dirs, args>>
    /\ UNCHANGED <<valVars, packVars, infVars, roleVars>>

\* The skip condition with the existing archive validated first.
SkipPackagingValidated(t) == tar_has_model_nemo(t) = "True"

\* Lines 80-82: the condition under which packaging is skipped.
SkipPackaging(t) == Exists(t)

\* Lines 79-82: return out_tar at once when something exists there.
SkipIfExists ==
    /\ pc = "L80"
    /\ IF SkipPackaging(tar) THEN Finish("returned")
       ELSE pc' = "L85" /\ UNCHANGED outcome
    /\ UNCHANGED <<nemo, tar, dirs, args, log, calls, pre, prev>>
    /\ UNCHANGED <<valVars, packVars, infVars, roleVars>>

\* os.makedirs(d, exist_ok=True): raises FileNotFoundError for d = "",
\* which is what os.path.dirname gives for a bare file name.
MakedirsRaises(d) == d = ""

\* Lines 84-86: create the parent directory of each path.
MakeDirs ==
    /\ pc = "L85"
    /\ IF MakedirsRaises(args.nemoDir)
       THEN Finish("FileNotFoundError:makedirs") /\ UNCHANGED dirs
       ELSE IF MakedirsRaises(args.tarDir)
       THEN Finish("FileNotFoundError:makedirs")
            /\ dirs' = dirs \cup {args.nemoDir}
       ELSE /\ dirs' = dirs \cup {args.nemoDir, args.tarDir}
            /\ pc' = "L89"
            /\ UNCHANGED outcome
    /\ UNCHANGED <<nemo, tar, args, log, calls, pre, prev>>
    /\ UNCHANGED <<valVars, packVars, infVars, roleVars>>

\* What from_pretrained(model_name) / save_to(local_nemo_path) may leave at
\* local_nemo_path: nothing, or a regular file of any size.
FetchResults == {NoNemo} \cup [kind : {"file"}, size : 0..MaxSize]

\* Lines 88-97: download the checkpoint when it is not there.  The fetch
\* either raises (wrapped into the RuntimeError of line 96) or returns.
EnsureCheckpoint ==
    /\ pc = "L89"
    /\ IF ~Exists(nemo)
       THEN /\ log' = Append(log, "fetch")
            /\ nemo' \in FetchResults
            /\ \/ Finish("RuntimeError:download")
               \/ pc' = "L99" /\ UNCHANGED outcome
       ELSE /\ pc' = "L99"
            /\ UNCHANGED <<nemo, log, outcome>>
    /\ UNCHANGED <<tar, dirs, args, calls, pre, prev>>
    /\ UNCHANGED <<valVars, packVars, infVars, roleVars>>

\* Lines 99-100: the checkpoint must exist and be non-empty.
CheckCheckpoint ==
    /\ pc = "L99"
    /\ log' = Append(log, "check")
    /\ IF ~Exists(nemo) \/ GetSize(nemo) <= 0
       THEN Finish("FileNotFoundError:missing")
       ELSE pc' = "L104" /\ UNCHANGED outcome
    /\ UNCHANGED <<nemo, tar, dirs, args, calls, pre, prev>>
    /\ UNCHANGED <<valVars, packVars, infVars, roleVars>>

\* Lines 102-108: write the archive.  tarfile.open or tar.add may raise
\* (wrapped into the RuntimeError of line 108): before out_tar is created,
\* or after, and then what was written stays at out_tar, since no code
\* removes it.
PackStep ==
    /\ pc = "L104"
    /\ log' = Append(log, "pack")
    /\ \/ /\ tar' = Pack(nemo, HostDefault, calls)
          /\ pc' = "L111"
          /\ UNCHANGED outcome
       \/ /\ UNCHANGED tar
          /\ Finish("RuntimeError:tar")
       \/ /\ tar' \in PartialPacks(nemo, HostDefault, calls)
          /\ Finish("RuntimeError:tar")
    /\ UNCHANGED <<nemo, dirs, args, calls, pre, prev>>
    /\ UNCHANGED <<valVars, packVars, infVars, roleVars>>

\* Lines 110-115: validate what was written; return out_tar or raise the
\* RuntimeError of line 112.  An exception of the validator itself is not
\* caught here.
VerifyStep ==
    /\ pc = "L111"
    /\ log' = Append(log, "validate")
    /\ LET r == tar_has_model_nemo(tar)
       IN  Finish(CASE r = "True" -> "returned"
                    [] r = "False" -> "RuntimeError:verify"
                    [] OTHER -> r)
    /\ UNCHANGED <<nemo, tar, dirs, args, calls, pre, prev>>
    /\ UNCHANGED <<valVars, packVars, infVars, roleVars>>

\* Between calls the caller deletes out_tar (to force a rebuild, or before
\* a retry).
DeleteTar ==
    /\ pc = "idle"
    /\ Exists(tar)
    /\ tar' = NoFile
    /\ outcome' = "none"
    /\ log' = <<>>
    /\ UNCHANGED <<nemo, dirs, args, pc, calls, pre, prev>>
    /\ UNCHANGED <<valVars, packVars, infVars, roleVars>>

PrepNext ==
    \/ Call
    \/ SkipIfExists
    \/ MakeDirs
    \/ EnsureCheckpoint
    \/ CheckCheckpoint
    \/ PackStep
    \/ VerifyStep
    \/ DeleteTar

\* ------------------------------------------- _tar_has_model_nemo, directly
EntryNames == {"model.nemo", "other.bin"}

\* Members as the packager's filter leaves them.
Entries ==
    { MkEntry(n, "reg", sz, FixedId, FixedId, "", "", ModeFile, FixedMtime) :
        n \in EntryNames, sz \in 0..MaxSize }
    \cup
    { MkEntry(n, "sym", 0, FixedId, FixedId, "", "", ModeOther, FixedMtime) :
        n \in EntryNames }

EntrySeqs == UNION {[1..k -> Entries] : k \in 0..MaxEntries}

\* Every object the validator may be pointed at.
AllFiles ==
    {NoFile, DirAtTar, UnreadableAtTar, JunkFile}
    \cup {MkFile("file", "tar", "none", es, 0) : es \in EntrySeqs}
    \cup {MkFile("file", "targz", tr, es, 0) :
            tr \in {"none", "trailer", "header"}, es \in EntrySeqs}
    \cup {MkFile("file", "targz", "body", es, 0) : es \in EntrySeqs \ {<<>>}}

ValInit ==
    /\ vres = "none"
    /\ vorigin = "found"
    /\ \/ vfile \in AllFiles /\ vsrc = NoNemo
       \/ vfile = NoFile /\ vsrc \in NemoStates

ValIdle ==
    vfile = NoFile /\ vsrc = NoNemo /\ vorigin = "found" /\ vres = "none"

\* The packaging step of lines 105-106 writes the archive of a checkpoint
\* that passed the check of line 99.
PackForValidation ==
    /\ vorigin = "found"
    /\ vres = "none"
    /\ ~Exists(vfile)
    /\ Exists(vsrc) /\ GetSize(vsrc) > 0
    /\ \E h \in Hosts, now \in 0..1 : vfile' = Pack(vsrc, h, now)
    /\ vorigin' = "packed"
    /\ UNCHANGED <<vsrc, vres>>
    /\ UNCHANGED <<prepVars, packVars, infVars, roleVars>>

\* A caller evaluates _tar_has_model_nemo(path).
Validate ==
    /\ vres = "none"
    /\ vres' = tar_has_model_nemo(vfile)
    /\ UNCHANGED <<vfile, vsrc, vorigin>>
    /\ UNCHANGED <<prepVars, packVars, infVars, roleVars>>

ValNext == PackForValidation \/ Validate

\* ------------------------------------------------- the packaging step, twice
\* Latest wall-clock time of a run.
MaxClock == 2

PackInit ==
    /\ psrc \in [kind : {"file"}, size : 1..MaxSize]
    /\ phost = HostDefault
    /\ pnow = 0
    /\ pdest = NoFile
    /\ pruns = <<>>

PackIdle ==
    /\ psrc = [kind |-> "file", size |-> 1]
    /\ phost = HostDefault
    /\ pnow = 0
    /\ pdest = NoFile
    /\ pruns = <<>>

\* One run of lines 105-106 with nothing at the destination.
PackRun ==
    /\ Len(pruns) < 2
    /\ ~Exists(pdest)
    /\ pdest' = Pack(psrc, phost, pnow)
    /\ pruns' = Append(pruns, pdest')
    /\ UNCHANGED <<psrc, phost, pnow>>
    /\ UNCHANGED <<prepVars, valVars, infVars, roleVars>>

\* The destination is deleted between the runs.
DeleteDest ==
    /\ Len(pruns) < 2
    /\ Exists(pdest)
    /\ pdest' = NoFile
    /\ UNCHANGED <<psrc, phost, pnow, pruns>>
    /\ UNCHANGED <<prepVars, valVars, infVars, roleVars>>

\* Time passes.
Tick ==
    /\ Len(pruns) < 2
    /\ pnow < MaxClock
    /\ pnow' = pnow + 1
    /\ UNCHANGED <<psrc, phost, pdest, pruns>>
    /\ UNCHANGED <<prepVars, valVars, infVars, roleVars>>

\* chown / chmod / touch of the checkpoint file, or the same bytes on
\* another host: the content stays.
Rehost ==
    /\ Len(pruns) < 2
    /\ \E h \in Hosts \ {phost} : phost' = h
    /\ UNCHANGED <<psrc, pnow, pdest, pruns>>
    /\ UNCHANGED <<prepVars, valVars, infVars, roleVars>>

PackNext == PackRun \/ DeleteDest \/ Tick \/ Rehost

\* ------------------------------------------------------------ inference.py
\* SR_REQUIRED, the only sample rate input_fn accepts.
SR_REQUIRED == 16000
\* Largest number of frames of a decoded container.
MaxFrames == 2
\* Largest number of transcripts the model returns.
MaxTexts == 2

SampleRates == {8000, SR_REQUIRED}

Samples == {0, 1}

\* What sf.read(..., dtype="float32", always_2d=True) gives for a container
\* it can decode: the sample rate and an array of shape (T, C), here its
\* rows.
Containers ==
    UNION { [sr : SampleRates, channels : {c},
             rows : UNION {[1..t -> [1..c -> Samples]] : t \in 0..MaxFrames}] :
            c \in 1..2 }

NoAudio == [sr |-> 0, channels |-> 0, rows |-> <<>>]

\* The value under "audio_b64":
\*   type : "number" (any JSON value that is not a string) or "str"
\*   b64  : "empty" (the string ""), "invalid" (base64.b64decode with
\*          validate=True raises) or "valid"
\*   wav  : "garbage" (sf.read raises on the decoded bytes) or "audio"
FieldValue(t, b, w, a) == [type |-> t, b64 |-> b, wav |-> w, audio |-> a]

NoValue == FieldValue("number", "empty", "garbage", NoAudio)

FieldValues ==
    { NoValue,
      FieldValue("str", "empty", "garbage", NoAudio),
      FieldValue("str", "invalid", "garbage", NoAudio),
      FieldValue("str", "valid", "garbage", NoAudio) }
    \cup {FieldValue("str", "valid", "audio", a) : a \in Containers}

\* The request body, by what json.loads makes of it:
\*   json : "invalid" (JSONDecodeError), "number", "null", "bool", "string",
\*          "list" or "object"
\*   has  : whether Python's  "audio_b64" in payload  is true (a key of the
\*          object, an element of the list, a substring of the string)
\*   value: payload["audio_b64"] of an object that has the key
Body(j, h, v) == [json |-> j, has |-> h, value |-> v]

Bodies ==
    {Body(j, FALSE, NoValue) : j \in {"invalid", "number", "null", "bool"}}
    \cup {Body(j, h, NoValue) : j \in {"string", "list"}, h \in BOOLEAN}
    \cup {Body("object", FALSE, NoValue)}
    \cup {Body("object", TRUE, v) : v \in FieldValues}

Requests == [ctype : {"application/json", "text/plain"}, body : Bodies]

\* A one-dimensional array.
Array1(d) == [dtype |-> "float32", shape |-> <<Len(d)>>, data |-> d]

NoBuf == [dtype |-> "none", shape |-> <<>>, data |-> <<>>]

\* What a handler gives: exc = "none" and a value, or the exception that
\* leaves it.  kind names the raise statement, after the error kinds of the
\* handler's contract.
Raise(e, k) == [exc |-> e, kind |-> k, buf |-> NoBuf]

Return(b) == [exc |-> "none", kind |-> "none", buf |-> b]

\* Line 83,  "audio_b64" not in payload : the membership test raises
\* TypeError for a payload that is no container.
MembershipRaises(payload) == payload.json \in {"number", "null", "bool"}

\* Line 86,  payload["audio_b64"] : raises TypeError for a list or a string.
SubscriptRaises(payload) == payload.json \in {"string", "list"}

\* Line 104.
SampleRateOk(audio) == audio.sr = SR_REQUIRED

\* Line 106,  audio.shape[1] != 1 .
ChannelCountAny(audio) == TRUE

ChannelCountOk(audio) == audio.channels = 1

\* Line 110,  audio[:, 0] : (T, C) -> (T,).
FirstColumn(audio) == Array1([i \in 1..Len(audio.rows) |-> audio.rows[i][1]])

\* input_fn(request_body, content_type), lines 75-116.
input_fn(request_body, content_type) ==
    IF content_type # "application/json"
    THEN Raise("ValueError", "UnsupportedContentType")
    ELSE IF request_body.json = "invalid"
    THEN Raise("ValueError", "MalformedPayload")
    ELSE IF MembershipRaises(request_body)
    THEN Raise("TypeError", "uncaught")
    ELSE IF ~request_body.has
    THEN Raise("ValueError", "MissingField")
    ELSE IF SubscriptRaises(request_body)
    THEN Raise("TypeError", "uncaught")
    ELSE LET b64 == request_body.value IN
    IF b64.type # "str" \/ b64.b64 = "empty"
    THEN Raise("ValueError", "InvalidFieldType")
    ELSE IF b64.b64 # "valid"
    THEN Raise("ValueError", "InvalidEncoding")
    ELSE IF b64.wav # "audio"
    THEN Raise("ValueError", "UndecodableAudio")
    ELSE LET audio == b64.audio IN
    IF ~SampleRateOk(audio)
    THEN Raise("ValueError", "SampleRateMismatch")
    ELSE IF ~ChannelCountOk(audio)
    THEN Raise("ValueError", "ChannelCountMismatch")
    ELSE IF FirstColumn(audio).shape[1] = 0
    THEN Raise("ValueError", "EmptyAudio")
    ELSE Return(FirstColumn(audio))

Texts == {"hello", "world"}

\* What model.transcribe does with a batch: it raises, or it returns a list
\* of transcripts (the model is opaque: of any length).
ModelOuts ==
    {[raises |-> TRUE, texts |-> <<>>]}
    \cup {[raises |-> FALSE, texts |-> t] :
            t \in UNION {[1..n -> Texts] : n \in 0..MaxTexts}}

NoOut == [raises |-> FALSE, texts |-> <<>>]

\* Lines 130-134: audio_np.astype("float32", copy=False).
AsFloat32(a) == [a EXCEPT !.dtype = "float32"]

Failed(e, c) == [exc |-> e, text |-> "", calls |-> c]

\* predict_fn with a default transcript in place of the exception.
predict_fn_default(audio_np, model) ==
    LET batch == <<AsFloat32(audio_np)>>
    IN  IF model.raises \/ Len(model.texts) = 0
        THEN [exc |-> "none", text |-> "", calls |-> <<batch>>]
        ELSE [exc |-> "none", text |-> model.texts[1], calls |-> <<batch>>]

\* predict_fn(audio_np, model), lines 122-139: one transcribe call with the
\* batch [audio_np]; index 0 of what it returns; no except clause.  calls
\* are the batches transcribe was called with.
predict_fn(audio_np, model) ==
    LET batch == <<AsFloat32(audio_np)>>
    IN  IF model.raises THEN Failed("ModelError", <<batch>>)
        ELSE IF Len(model.texts) = 0 THEN Failed("IndexError", <<batch>>)
        ELSE [exc |-> "none", text |-> model.texts[1], calls |-> <<batch>>]

\* output_fn(pred, accept), lines 145-154: JSON whatever accept asks for.
output_fn(pred, accept) ==
    [body |-> [text |-> pred], ctype |-> "application/json"]

NoPres == [exc |-> "none", text |-> "", calls |-> <<>>]

NoResp == [body |-> [text |-> ""], ctype |-> "none"]

InfIdle ==
    /\ req = [ctype |-> "application/json", body |-> Body("invalid", FALSE, NoValue)]
    /\ stage = "received"
    /\ ires = Raise("none", "none")
    /\ mcalls = <<>>
    /\ mout = NoOut
    /\ pres = NoPres
    /\ resp = NoResp

InfInit ==
    /\ req \in Requests
    /\ stage = "received"
    /\ ires = Raise("none", "none")
    /\ mcalls = <<>>
    /\ mout = NoOut
    /\ pres = NoPres
    /\ resp = NoResp

\* The container hands the request to input_fn.
InputFn ==
    /\ stage = "received"
    /\ ires' = input_fn(req.body, req.ctype)
    /\ stage' = IF ires'.exc = "none" THEN "decoded" ELSE "rejected"
    /\ UNCHANGED <<req, mcalls, mout, pres, resp>>
    /\ UNCHANGED <<prepVars, valVars, packVars, roleVars>>

\* The container hands what input_fn returned to predict_fn.
PredictFn ==
    /\ stage = "decoded"
    /\ \E m \in ModelOuts :
          /\ mout' = m
          /\ pres' = predict_fn(ires.buf, m)
    /\ mcalls' = pres'.calls
    /\ stage' = IF pres'.exc = "none" THEN "predicted" ELSE "failed"
    /\ UNCHANGED <<req, ires, resp>>
    /\ UNCHANGED <<prepVars, valVars, packVars, roleVars>>

\* The container hands the transcript to output_fn.
OutputFn ==
    /\ stage = "predicted"
    /\ \E accept \in {"application/json", "text/plain"} :
          resp' = output_fn(pres.text, accept)
    /\ stage' = "responded"
    /\ UNCHANGED <<req, ires, mcalls, mout, pres>>
    /\ UNCHANGED <<prepVars, valVars, packVars, roleVars>>

InfNext == InputFn \/ PredictFn \/ OutputFn

\* ------------------------------------------------------------ create_role.py
\* Number of create_sagemaker_role calls in one behaviour.
MaxRoleCalls == 4

NoRole == [exists |-> FALSE, attached |-> FALSE]

RoleSnapshot == [iam |-> iam, made |-> rmade]

RoleIdle ==
    /\ iam = NoRole
    /\ rpc = "idle"
    /\ rlog = <<>>
    /\ rout = "none"
    /\ rcalls = 0
    /\ rmade = 0
    /\ rpre = RoleSnapshot

\* Before the first call the role is not there, or an earlier deployment
\* made it, policy attached.
RoleInit ==
    /\ iam \in {NoRole, [exists |-> TRUE, attached |-> TRUE]}
    /\ rpc = "idle"
    /\ rlog = <<>>
    /\ rout = "none"
    /\ rcalls = 0
    /\ rmade = 0
    /\ rpre = RoleSnapshot

\* The call ends: it returns the ARN or an exception leaves it.
RoleFinish(o) == rpc' = "idle" /\ rout' = o

\* A caller invokes create_sagemaker_role(role_name).
RoleCall ==
    /\ rpc = "idle"
    /\ rcalls < MaxRoleCalls
    /\ rcalls' = rcalls + 1
    /\ rpc' = "create_role"
    /\ rlog' = <<>>
    /\ rout' = "running"
    /\ rpre' = RoleSnapshot
    /\ UNCHANGED <<iam, rmade>>
    /\ UNCHANGED <<prepVars, valVars, packVars, infVars>>

\* Lines 61-65: iam.create_role.  For a role that is there IAM raises
\* EntityAlreadyExistsException, handled at line 77; any other failure is
\* wrapped into the RuntimeError of line 84.
CreateRole ==
    /\ rpc = "create_role"
    /\ rlog' = Append(rlog, "create_role")
    /\ \/ /\ ~iam.exists
          /\ iam' = [exists |-> TRUE, attached |-> FALSE]
          /\ rmade' = rmade + 1
          /\ rpc' = "attach_role_policy"
          /\ UNCHANGED rout
       \/ /\ iam.exists
          /\ rpc' = "get_role"
          /\ UNCHANGED <<iam, rmade, rout>>
       \/ /\ RoleFinish("RuntimeError")
          /\ UNCHANGED <<iam, rmade>>
    /\ UNCHANGED <<rcalls, rpre>>
    /\ UNCHANGED <<prepVars, valVars, packVars, infVars>>

\* Lines 67-75: iam.attach_role_policy, then return the ARN of the
\* create_role response.  A failure is wrapped into the RuntimeError of
\* line 84 and the role just created stays, without the policy.
AttachRolePolicy ==
    /\ rpc = "attach_role_policy"
    /\ rlog' = Append(rlog, "attach_role_policy")
    /\ \/ /\ iam' = [iam EXCEPT !.attached = TRUE]
          /\ RoleFinish("arn")
       \/ /\ RoleFinish("RuntimeError")
          /\ UNCHANGED iam
    /\ UNCHANGED <<rcalls, rmade, rpre>>
    /\ UNCHANGED <<prepVars, valVars, packVars, infVars>>

\* Lines 77-81: iam.get_role and return its ARN.  An exception raised in
\* this handler is not caught by the except clause of line 83.
GetRole ==
    /\ rpc = "get_role"
    /\ rlog' = Append(rlog, "get_role")
    /\ \/ RoleFinish("arn")
       \/ RoleFinish("ClientError")
    /\ UNCHANGED <<iam, rcalls, rmade, rpre>>
    /\ UNCHANGED <<prepVars, valVars, packVars, infVars>>

\* Between calls an administrator deletes the role.
DeleteRole ==
    /\ rpc = "idle"
    /\ iam.exists
    /\ iam' = NoRole
    /\ rout' = "none"
    /\ rlog' = <<>>
    /\ UNCHANGED <<rpc, rcalls, rmade, rpre>>
    /\ UNCHANGED <<prepVars, valVars, packVars, infVars>>

RoleNext == RoleCall \/ CreateRole \/ AttachRolePolicy \/ GetRole \/ DeleteRole

\* ----------------------------------------------------------- specifications
\* prepare_nemo_artifact called again and again on one file system.
Init == PrepInit /\ ValIdle /\ PackIdle /\ InfIdle /\ RoleIdle

Next == PrepNext

Spec == Init /\ [][Next]_vars

\* _tar_has_model_nemo on any object.
InitValidate == ValInit /\ PrepInitIdle /\ PackIdle /\ InfIdle /\ RoleIdle

NextValidate == ValNext

SpecValidate == InitValidate /\ [][NextValidate]_vars

\* The packaging step run twice.
InitPack == PackInit /\ PrepInitIdle /\ ValIdle /\ InfIdle /\ RoleIdle

NextPack == PackNext

SpecPack == InitPack /\ [][NextPack]_vars

\* One request through the inference handler.
InitInfer == InfInit /\ PrepInitIdle /\ ValIdle /\ PackIdle /\ RoleIdle

NextInfer == InfNext

SpecInfer == InitInfer /\ [][NextInfer]_vars

\* create_sagemaker_role called again and again.
InitRole == RoleInit /\ PrepInitIdle /\ ValIdle /\ PackIdle /\ InfIdle

NextRole == RoleNext

SpecRole == InitRole /\ [][NextRole]_vars


\* ------------------------------------------------------------------ claims
\* Number of times step s was taken in log l.
Count(l, s) == Cardinality({i \in DOMAIN l : l[i] = s})

IsPrefix(l, m) == Len(l) <= Len(m) /\ \A i \in DOMAIN l : l[i] = m[i]

\* The last call has ended and the file system is as it left it.
CallEnded == pc = "idle" /\ outcome \notin {"none", "running"}

\* C1: every call that returns a path returns the path of an archive that
\* passes _tar_has_model_nemo, whatever was at out_tar before and whatever
\* earlier calls did.
C1_ReturnedArchiveIsValid ==
    (pc = "idle" /\ outcome = "returned") => tar_has_model_nemo(tar) = "True"

\* C2: a call that fails with the packaging error or with the verification
\* error leaves nothing at out_tar.
C2_FailedBuildLeavesNoFile ==
    (pc = "idle" /\ outcome \in {"RuntimeError:tar", "RuntimeError:verify"})
        => ~Exists(tar)

C4_FetchCheckPackValidate ==
    (calls > 0 /\ outcome # "none" /\ ~Exists(pre.tar)) =>
        /\ IF Exists(pre.nemo)
           THEN IsPrefix(log, <<"check", "pack", "validate">>)
           ELSE IsPrefix(log, <<"fetch", "check", "pack", "validate">>)
        /\ (pc = "idle" /\ ~Exists(pre.nemo)) => Count(log, "fetch") = 1
        /\ (outcome = "RuntimeError:download") => log = <<"fetch">>
        /\ (pc = "idle" /\ Count(log, "check") = 1
              /\ (~Exists(nemo) \/ GetSize(nemo) <= 0)) =>
              (outcome = "FileNotFoundError:missing"
                 /\ Count(log, "pack") = 0 /\ tar = pre.tar)

\* C5: _tar_has_model_nemo fails closed: whatever is at the path, the call
\* gives true or false and no exception leaves it.
C5_ValidatorNeverRaises == vres \in {"none", "True", "False"}

\* The four checks of the validator's contract, on the object at the path:
\* it exists; it is a valid gzip-compressed tar (complete, not truncated);
\* it has a member named model.nemo; that member is a regular file of
\* size > 0.
FourChecks(f) ==
    /\ Exists(f)
    /\ f.kind = "file" /\ f.fmt = "targz" /\ f.trunc = "none"
    /\ \E i \in DOMAIN f.entries : f.entries[i].name = "model.nemo"
    /\ LET info == GetMember(f, "model.nemo")
       IN  info.type = "reg" /\ info.size > 0

\* C6: _tar_has_model_nemo gives true exactly when the four checks hold
\* (so never for a truncated archive), and gives true for the archive the
\* packager writes from any existing checkpoint of size > 0.
C6_TrueIffFourChecks ==
    vres # "none" =>
        /\ (vres = "True") <=> FourChecks(vfile)
        /\ (vorigin = "packed") => vres = "True"

\* C7: two runs of the packaging step on the same checkpoint content, the
\* destination deleted in between, write the same archive whatever the
\* owner, group, mode and mtime of the checkpoint file and whatever the
\* time of each run.
C7_PackIsDeterministic == Len(pruns) = 2 => pruns[1] = pruns[2]

\* The constraints of the handler's contract on a request.
Constraints(r) ==
    /\ r.ctype = "application/json"
    /\ r.body.json = "object"
    /\ r.body.has
    /\ r.body.value.type = "str"
    /\ r.body.value.b64 = "valid"
    /\ r.body.value.wav = "audio"
    /\ r.body.value.audio.sr = 16000
    /\ r.body.value.audio.channels = 1
    /\ Len(r.body.value.audio.rows) >= 1

\* C8: input_fn returns a buffer only for a request that meets every
\* constraint; the buffer is one-dimensional, as long as the container has
\* frames, and holds the container's samples as they are; for any other
\* request an exception leaves it and there is no buffer.
C8_BufferOnlyFromValidRequest ==
    stage # "received" =>
        /\ (ires.exc = "none") <=> Constraints(req)
        /\ (ires.exc = "none") =>
              LET rows == req.body.value.audio.rows
              IN  /\ ires.buf.shape = <<Len(rows)>>
                  /\ Len(ires.buf.data) = Len(rows)
                  /\ \A i \in DOMAIN rows : ires.buf.data[i] = rows[i][1]
        /\ (ires.exc # "none") => ires.buf = NoBuf

\* C8 witness: a mono 16 kHz request of MaxFrames frames was decoded.
C8_Witness ==
    /\ stage = "decoded"
    /\ Constraints(req)
    /\ Len(ires.buf.data) = MaxFrames

\* The error kind the contract gives a request: that of the first step it
\* violates, in the contract's order.
ExpectedKind(r) ==
    LET v == r.body.value
        a == v.audio
    IN  CASE r.ctype # "application/json" -> "UnsupportedContentType"
          [] r.body.json # "object" -> "MalformedPayload"
          [] ~r.body.has -> "MissingField"
          [] v.type # "str" \/ v.b64 = "empty" -> "InvalidFieldType"
          [] v.b64 # "valid" -> "InvalidEncoding"
          [] v.wav # "audio" -> "UndecodableAudio"
          [] a.sr # 16000 -> "SampleRateMismatch"
          [] a.channels # 1 -> "ChannelCountMismatch"
          [] Len(a.rows) = 0 -> "EmptyAudio"
          [] OTHER -> "none"

\* C9: input_fn rejects every request with a validation error of the kind
\* of the first violated step; a body that is JSON but no object is
\* rejected as MalformedPayload, never by another kind or an uncaught
\* exception.
C9_FirstViolatedStepDecides ==
    stage # "received" =>
        /\ ires.kind = ExpectedKind(req)
        /\ ires.exc \in {"none", "ValueError"}

\* C10: predict_fn calls transcribe once, with the one-element batch of the
\* normalized buffer, and returns the first transcript as it is; when the
\* model raises or returns no transcript the exception reaches the caller
\* and no transcript is returned.
C10_OneCallFirstResultNoDefault ==
    stage \in {"predicted", "failed", "responded"} =>
        /\ mcalls = << <<AsFloat32(ires.buf)>> >>
        /\ IF mout.raises
           THEN stage = "failed" /\ pres.exc = "ModelError"
           ELSE IF mout.texts = <<>>
           THEN stage = "failed" /\ pres.exc = "IndexError"
           ELSE /\ stage # "failed"
                /\ pres.exc = "none"
                /\ pres.text = mout.texts[1]
        /\ (stage = "responded") => resp.body.text = mout.texts[1]

\* C10 witness: the model returned an empty list and the request failed.
C10_Witness ==
    /\ stage = "failed"
    /\ ~mout.raises
    /\ mout.texts = <<>>
    /\ Len(mcalls) = 1

\* C11: every create_sagemaker_role call that returns an ARN leaves the
\* role existing with AmazonSageMakerFullAccess attached, whichever IAM
\* calls failed before; a call that finds the role there returns its ARN
\* and creates no second role.
C11_ReturnedRoleHasPolicy ==
    (rpc = "idle" /\ rout = "arn") =>
        /\ iam.exists
        /\ iam.attached
        /\ rpre.iam.exists => rmade = rpre.made

====
